---- MODULE Spec2Model ----
(***************************************************************************)
(* A model of the bit-svo sparse voxel octree (src/src/lib.rs,             *)
(* src/src/voxel_bounds.rs) and of its ray caster (src/src/raycast.rs).    *)
(*                                                                         *)
(* Integers keep the widths of the source: coordinates and masks are i32,  *)
(* VoxelBounds.lg_size is i16 and VoxelTree.lg_size is u8.  An arithmetic  *)
(* overflow panics when the crate is built with overflow checks and wraps  *)
(* when it is built without them; `checked` says which build is modelled.  *)
(***************************************************************************)
EXTENDS Integers, Sequences, FiniteSets, TLC

VARIABLES
  lg_size,    \* VoxelTree.lg_size (u8)
  contents,   \* VoxelTree.contents (Branches<T>)
  status,     \* "ok", "panic" (the call aborted) or "hang" (the call never returns)
  checked,    \* TRUE: built with overflow checks; FALSE: wrapping arithmetic
  prev,       \* the call before the last one
  last,       \* the last call made on the tree, with its arguments and result
  inserted,   \* the insertions not overwritten since: pairs <<bounds, value>>
  nops,       \* number of calls made so far
  arg,        \* inputs of the pure-function specifications
  out         \* result of the function applied by the pure-function specifications

vars == <<lg_size, contents, status, checked, prev, last, inserted, nops, arg, out>>

----------------------------------------------------------------------------
(* Bounds of the model.                                                    *)

MaxOps == 2          \* calls made on one tree
MaxLg == 2           \* lg_size of the trees the single calls are made on: 0..MaxLg
MaxCoord == 4        \* coordinates of the single calls: -MaxCoord-1..MaxCoord

----------------------------------------------------------------------------
(* Fixed-width integer arithmetic.                                         *)

MaxI32 == 2147483647
MinI32 == -2147483647 - 1
Pow30 == 1073741824

\* A result of an arithmetic operation: a value, or a panic.
Val(v) == [ok |-> TRUE, v |-> v]
Panic == [ok |-> FALSE, v |-> 0]

\* a * 2 in an i32, wrapping.
Dbl32(a) ==
  IF a >= Pow30 THEN ((a - Pow30) - Pow30) * 2
  ELSE IF a < -Pow30 THEN ((a + Pow30) + Pow30) * 2
  ELSE a * 2

RECURSIVE ShlBits(_, _)
ShlBits(a, n) == IF n = 0 THEN a ELSE ShlBits(Dbl32(a), n - 1)

\* a << n for an i32 a: a shift by 32 or more panics under overflow checks
\* and is taken modulo 32 without them.
Shl32(chk, a, n) ==
  IF n >= 0 /\ n < 32 THEN Val(ShlBits(a, n))
  ELSE IF chk THEN Panic
  ELSE Val(ShlBits(a, n % 32))

\* a >> n for an i32 a (arithmetic shift), n in 0..31.
ShrBits(a, n) == IF n = 31 THEN (IF a < 0 THEN -1 ELSE 0) ELSE a \div (2 ^ n)

Shr32(chk, a, n) ==
  IF n >= 0 /\ n < 32 THEN Val(ShrBits(a, n))
  ELSE IF chk THEN Panic
  ELSE Val(ShrBits(a, n % 32))

\* -a in an i32.
Neg32(chk, a) ==
  IF a # MinI32 THEN Val(-a) ELSE IF chk THEN Panic ELSE Val(MinI32)

\* a + 1 in an i32.
Inc32(chk, a) ==
  IF a # MaxI32 THEN Val(a + 1) ELSE IF chk THEN Panic ELSE Val(MinI32)

\* -a in an i16.
Neg16(chk, a) ==
  IF a # -32768 THEN Val(-a) ELSE IF chk THEN Panic ELSE Val(-32768)

\* lg_size + 1 in a u8.
Inc8(chk, a) ==
  IF a # 255 THEN Val(a + 1) ELSE IF chk THEN Panic ELSE Val(0)

\* Bit k (0..31) of the two's complement representation of the i32 a.
Bit32(a, k) == IF k = 31 THEN (IF a < 0 THEN 1 ELSE 0) ELSE (a \div (2 ^ k)) % 2

\* (a & m) != 0 for i32 a and m.
AndNonZero(a, m) == \E k \in 0..31 : Bit32(a, k) = 1 /\ Bit32(m, k) = 1

----------------------------------------------------------------------------
(* The tree.                                                               *)

Empty == [tag |-> "Empty"]
Leaf(v) == [tag |-> "Leaf", val |-> v]
Branch(b) == [tag |-> "Branch", b |-> b]

Slots == {"lll", "llh", "lhl", "lhh", "hll", "hlh", "hhl", "hhh"}

Branches_empty == [s \in Slots |-> Empty]

VoxelBounds_new(x, y, z, s) == [x |-> x, y |-> y, z |-> z, lg_size |-> s]

\* get_branch: the slot chosen by the three answers of choose_branch (x, y,
\* z order), for the read-only traversal.
get_branch(cx, cy, cz) ==
  CASE ~cx /\ ~cy /\ ~cz -> "lll"
    [] ~cx /\ ~cy /\  cz -> "llh"
    [] ~cx /\  cy /\ ~cz -> "lhl"
    [] ~cx /\  cy /\  cz -> "lhh"
    []  cx /\ ~cy /\ ~cz -> "hll"
    []  cx /\ ~cy /\  cz -> "hlh"
    []  cx /\  cy /\ ~cz -> "hhl"
    []  cx /\  cy /\  cz -> "hhh"

\* get_branch_mut with the slots of (false, true, true) and (true, false,
\* false) exchanged.
get_branch_mut_swapped(cx, cy, cz) ==
  CASE ~cx /\ ~cy /\ ~cz -> "lll"
    [] ~cx /\ ~cy /\  cz -> "llh"
    [] ~cx /\  cy /\ ~cz -> "lhl"
    [] ~cx /\  cy /\  cz -> "hll"
    []  cx /\ ~cy /\ ~cz -> "lhh"
    []  cx /\ ~cy /\  cz -> "hlh"
    []  cx /\  cy /\ ~cz -> "hhl"
    []  cx /\  cy /\  cz -> "hhh"

\* get_branch_mut: the slot chosen for the mutable traversal.
get_branch_mut(cx, cy, cz) ==
  CASE ~cx /\ ~cy /\ ~cz -> "lll"
    [] ~cx /\ ~cy /\  cz -> "llh"
    [] ~cx /\  cy /\ ~cz -> "lhl"
    [] ~cx /\  cy /\  cz -> "lhh"
    []  cx /\ ~cy /\ ~cz -> "hll"
    []  cx /\ ~cy /\  cz -> "hlh"
    []  cx /\  cy /\ ~cz -> "hhl"
    []  cx /\  cy /\  cz -> "hhh"

\* contains_bounds with the low side compared by < in place of <=.
contains_bounds_low_inclusive(chk, lg, voxel) ==
  IF voxel.lg_size < 0 THEN "true"
  ELSE
    LET one == Shl32(chk, 1, lg)
        high == IF one.ok THEN Shr32(chk, one.v, voxel.lg_size) ELSE Panic
        low == IF high.ok THEN Neg32(chk, high.v) ELSE Panic
    IN IF ~low.ok THEN "panic"
       ELSE IF voxel.x < low.v \/ voxel.y < low.v \/ voxel.z < low.v THEN "false"
       ELSE LET x1 == Inc32(chk, voxel.x)
                y1 == Inc32(chk, voxel.y)
                z1 == Inc32(chk, voxel.z)
            IN IF ~x1.ok THEN "panic"
               ELSE IF ~(x1.v <= high.v) THEN "false"
               ELSE IF ~y1.ok THEN "panic"
               ELSE IF ~(y1.v <= high.v) THEN "false"
               ELSE IF ~z1.ok THEN "panic"
               ELSE IF z1.v <= high.v THEN "true" ELSE "false"

\* contains_bounds with the high side compared without the + 1.
contains_bounds_high_inclusive(chk, lg, voxel) ==
  IF voxel.lg_size < 0 THEN "true"
  ELSE
    LET one == Shl32(chk, 1, lg)
        high == IF one.ok THEN Shr32(chk, one.v, voxel.lg_size) ELSE Panic
        low == IF high.ok THEN Neg32(chk, high.v) ELSE Panic
    IN IF ~low.ok THEN "panic"
       ELSE IF voxel.x <= low.v \/ voxel.y <= low.v \/ voxel.z <= low.v THEN "false"
       ELSE LET x1 == Val(voxel.x)
                y1 == Val(voxel.y)
                z1 == Val(voxel.z)
            IN IF ~x1.ok THEN "panic"
               ELSE IF ~(x1.v <= high.v) THEN "false"
               ELSE IF ~y1.ok THEN "panic"
               ELSE IF ~(y1.v <= high.v) THEN "false"
               ELSE IF ~z1.ok THEN "panic"
               ELSE IF z1.v <= high.v THEN "true" ELSE "false"

\* contains_bounds: "true", "false" or "panic".
contains_bounds(chk, lg, voxel) ==
  IF voxel.lg_size < 0 THEN "true"
  ELSE
    LET one == Shl32(chk, 1, lg)
        high == IF one.ok THEN Shr32(chk, one.v, voxel.lg_size) ELSE Panic
        low == IF high.ok THEN Neg32(chk, high.v) ELSE Panic
    IN IF ~low.ok THEN "panic"
       ELSE IF voxel.x <= low.v \/ voxel.y <= low.v \/ voxel.z <= low.v THEN "false"
       ELSE LET x1 == Inc32(chk, voxel.x)
                y1 == Inc32(chk, voxel.y)
                z1 == Inc32(chk, voxel.z)
            IN IF ~x1.ok THEN "panic"
               ELSE IF ~(x1.v <= high.v) THEN "false"
               ELSE IF ~y1.ok THEN "panic"
               ELSE IF ~(y1.v <= high.v) THEN "false"
               ELSE IF ~z1.ok THEN "panic"
               ELSE IF z1.v <= high.v THEN "true" ELSE "false"

\* The macro at!(c_idx, b_idx) of grow_to_hold.
at(old, c_idx, b_idx) == Branch([Branches_empty EXCEPT ![b_idx] = old[c_idx]])

\* One doubling that puts the old llh and lhl children at the slots of each
\* other's antipodes.
grow_once_swapped(old) ==
  [lll |-> at(old, "lll", "hhh"),
   llh |-> at(old, "llh", "hlh"),
   lhl |-> at(old, "lhl", "hhl"),
   lhh |-> at(old, "lhh", "hll"),
   hll |-> at(old, "hll", "lhh"),
   hlh |-> at(old, "hlh", "lhl"),
   hhl |-> at(old, "hhl", "llh"),
   hhh |-> at(old, "hhh", "lll")]

\* One doubling of grow_to_hold: the new top level.
grow_once(old) ==
  [lll |-> at(old, "lll", "hhh"),
   llh |-> at(old, "llh", "hhl"),
   lhl |-> at(old, "lhl", "hlh"),
   lhh |-> at(old, "lhh", "hll"),
   hll |-> at(old, "hll", "lhh"),
   hlh |-> at(old, "hlh", "lhl"),
   hhl |-> at(old, "hhl", "llh"),
   hhh |-> at(old, "hhh", "lll")]

\* The contents after n doublings of grow_to_hold.
RECURSIVE GrowBy(_, _)
GrowBy(br, n) == IF n = 0 THEN br ELSE GrowBy(grow_once(br), n - 1)

\* grow_to_hold with the search for the new lg_size started at 0 in place of
\* the tree's lg_size.
grow_to_hold_from_zero(chk, lg, br, voxel) ==
  LET Stops(i) == contains_bounds(chk, i, voxel) # "false"
  IN IF \E i \in 0..255 : Stops(i)
     THEN LET n == CHOOSE i \in 0..255 : Stops(i) /\ \A k \in 0..(i - 1) : ~Stops(k)
          IN IF contains_bounds(chk, n, voxel) = "true"
             THEN [st |-> "ok", lg_size |-> n, contents |-> GrowBy(br, n)]
             ELSE [st |-> "panic", lg_size |-> n, contents |-> br]
     ELSE [st |-> "panic", lg_size |-> 255, contents |-> br]

\* grow_to_hold.  The loop goes through lg_size = lg, lg + 1, ... and stops
\* at the first one for which contains_bounds does not answer "false": it
\* returns ("ok") when the answer is "true" and aborts when the answer is a
\* panic.  `lg_size += 1` panics at 255 under overflow checks and wraps to 0
\* without them; a loop that wraps and still finds no lg_size to stop at
\* never ends ("hang").  After "panic" and "hang" no caller sees the tree:
\* the contents are left as they were.
grow_to_hold(chk, lg, br, voxel) ==
  LET Stops(i) == contains_bounds(chk, (lg + i) % 256, voxel) # "false"
      most == IF chk THEN 255 - lg ELSE 255
  IN IF \E i \in 0..most : Stops(i)
     THEN LET n == CHOOSE i \in 0..most : Stops(i) /\ \A k \in 0..(i - 1) : ~Stops(k)
              l == (lg + n) % 256
          IN IF contains_bounds(chk, l, voxel) = "true"
             THEN [st |-> "ok", lg_size |-> l, contents |-> GrowBy(br, n)]
             ELSE [st |-> "panic", lg_size |-> l, contents |-> br]
     ELSE IF chk THEN [st |-> "panic", lg_size |-> 255, contents |-> br]
     ELSE [st |-> "hang", lg_size |-> lg, contents |-> br]

\* find_mask: the mask the traversal starts with, or a panic.
find_mask(chk, lg, voxel) ==
  LET one == Shl32(chk, 1, lg)
      m0 == IF one.ok THEN Shr32(chk, one.v, 1) ELSE Panic
  IN IF ~m0.ok THEN Panic
     ELSE IF voxel.lg_size >= 0 THEN Shr32(chk, m0.v, voxel.lg_size)
     ELSE LET n == Neg16(chk, voxel.lg_size)
          IN IF n.ok THEN Shl32(chk, m0.v, n.v) ELSE Panic

\* get_mut_or_create_step: the Branches to continue in; an Empty or a Leaf
\* is replaced by a fresh Branch.
get_mut_or_create_step(branch) ==
  IF branch.tag = "Branch" THEN branch.b ELSE Branches_empty

\* The loop of mut_find (lib.rs:229-235) with get_mut_or_create_step as the
\* step: the Branches with the path created, and the path of the node
\* returned.  Called with a mask that reaches 0.
RECURSIVE mut_find_loop(_, _, _)
mut_find_loop(branches, voxel, mask) ==
  LET slot == get_branch_mut(AndNonZero(voxel.x, mask), AndNonZero(voxel.y, mask),
                             AndNonZero(voxel.z, mask))
      mask1 == ShrBits(mask, 1)
  IN IF mask1 = 0 THEN [contents |-> branches, path |-> <<slot>>]
     ELSE LET sub == mut_find_loop(get_mut_or_create_step(branches[slot]), voxel, mask1)
          IN [contents |-> [branches EXCEPT ![slot] = Branch(sub.contents)],
              path |-> <<slot>> \o sub.path]

\* mut_find with get_mut_or_create_step as the step.  A mask with the sign
\* bit set never reaches 0 under the arithmetic shift: the loop keeps
\* creating Branches and never returns.
mut_find(chk, lg, branches, voxel) ==
  LET m == find_mask(chk, lg, voxel)
      slot == get_branch_mut(voxel.x >= 0, voxel.y >= 0, voxel.z >= 0)
  IN IF ~m.ok THEN [st |-> "panic", contents |-> branches, path |-> <<>>]
     ELSE IF m.v = 0 THEN [st |-> "ok", contents |-> branches, path |-> <<slot>>]
     ELSE IF m.v < 0 THEN [st |-> "hang", contents |-> branches, path |-> <<>>]
     ELSE LET sub == mut_find_loop(get_mut_or_create_step(branches[slot]), voxel, m.v)
          IN [st |-> "ok",
              contents |-> [branches EXCEPT ![slot] = Branch(sub.contents)],
              path |-> <<slot>> \o sub.path]

\* The node at a path of slots.
RECURSIVE NodeAt(_, _)
NodeAt(branches, path) ==
  IF Len(path) = 1 THEN branches[Head(path)]
  ELSE NodeAt(branches[Head(path)].b, Tail(path))

\* Assignment through the &mut TreeBody that get_mut_or_create returned.
RECURSIVE Assign(_, _, _)
Assign(branches, path, node) ==
  IF Len(path) = 1 THEN [branches EXCEPT ![Head(path)] = node]
  ELSE [branches EXCEPT ![Head(path)] =
          Branch(Assign(branches[Head(path)].b, Tail(path), node))]

\* get_mut_or_create without the call of grow_to_hold.
get_mut_or_create_no_grow(chk, lg, branches, voxel) ==
  LET f == mut_find(chk, lg, branches, voxel)
  IN [st |-> f.st, lg_size |-> lg, contents |-> f.contents, path |-> f.path]

\* get_mut_or_create: grow_to_hold, then mut_find.
get_mut_or_create(chk, lg, branches, voxel) ==
  LET g == grow_to_hold(chk, lg, branches, voxel) IN
  IF g.st # "ok" THEN [st |-> g.st, lg_size |-> g.lg_size, contents |-> g.contents,
                       path |-> <<>>]
  ELSE LET f == mut_find(chk, g.lg_size, g.contents, voxel)
       IN [st |-> f.st, lg_size |-> g.lg_size, contents |-> f.contents, path |-> f.path]

\* The loop of find (lib.rs:265-271) with the step of get: the node reached,
\* or "Err" when a node on the way is not a Branch.
RECURSIVE find_loop(_, _, _)
find_loop(branches, voxel, mask) ==
  LET slot == get_branch(AndNonZero(voxel.x, mask), AndNonZero(voxel.y, mask),
                         AndNonZero(voxel.z, mask))
      branch == branches[slot]
      mask1 == ShrBits(mask, 1)
  IN IF mask1 = 0 THEN [tag |-> "Ok", node |-> branch]
     ELSE IF branch.tag = "Branch" THEN find_loop(branch.b, voxel, mask1)
     ELSE [tag |-> "Err"]

find(chk, lg, branches, voxel) ==
  LET m == find_mask(chk, lg, voxel)
      branch == branches[get_branch(voxel.x >= 0, voxel.y >= 0, voxel.z >= 0)]
  IN IF ~m.ok THEN [tag |-> "panic"]
     ELSE IF m.v = 0 THEN [tag |-> "Ok", node |-> branch]
     ELSE IF branch.tag = "Branch" THEN find_loop(branch.b, voxel, m.v)
     ELSE [tag |-> "Err"]

\* The slots that find selects with the step of get (lib.rs:324-329), one
\* after another, until it returns: with Ok at mask 0, with Err at a node
\* that is no Branch.
RECURSIVE find_slots_loop(_, _, _)
find_slots_loop(branches, voxel, mask) ==
  LET slot == get_branch(AndNonZero(voxel.x, mask), AndNonZero(voxel.y, mask),
                         AndNonZero(voxel.z, mask))
      mask1 == ShrBits(mask, 1)
  IN IF mask1 = 0 THEN [tag |-> "Ok", path |-> <<slot>>]
     ELSE IF branches[slot].tag = "Branch"
     THEN LET sub == find_slots_loop(branches[slot].b, voxel, mask1)
          IN [tag |-> sub.tag, path |-> <<slot>> \o sub.path]
     ELSE [tag |-> "Err", path |-> <<slot>>]

find_slots(chk, lg, branches, voxel) ==
  LET m == find_mask(chk, lg, voxel)
      slot == get_branch(voxel.x >= 0, voxel.y >= 0, voxel.z >= 0)
  IN IF ~m.ok THEN [tag |-> "panic", path |-> <<>>]
     ELSE IF m.v = 0 THEN [tag |-> "Ok", path |-> <<slot>>]
     ELSE IF branches[slot].tag = "Branch"
     THEN LET sub == find_slots_loop(branches[slot].b, voxel, m.v)
          IN [tag |-> sub.tag, path |-> <<slot>> \o sub.path]
     ELSE [tag |-> "Err", path |-> <<slot>>]

\* get: 0 for None, the leaf's value for Some, -1 for a panic.
None == 0
Aborted == -1

\* get without the early return for bounds that contains_bounds rejects.
get_without_bounds_check(chk, lg, branches, voxel) ==
  LET r == find(chk, lg, branches, voxel)
  IN IF r.tag = "panic" THEN Aborted
     ELSE IF r.tag = "Ok" /\ r.node.tag = "Leaf" THEN r.node.val
     ELSE None

get(chk, lg, branches, voxel) ==
  LET c == contains_bounds(chk, lg, voxel) IN
  IF c = "panic" THEN Aborted
  ELSE IF c = "false" THEN None
  ELSE LET r == find(chk, lg, branches, voxel)
       IN IF r.tag = "panic" THEN Aborted
          ELSE IF r.tag = "Ok" /\ r.node.tag = "Leaf" THEN r.node.val
          ELSE None


----------------------------------------------------------------------------
(* The tree as a state machine: the public calls, made one after another   *)
(* on one tree.                                                            *)

\* The corners the calls are made at: both signs on every axis, inside and
\* outside the extent of the new tree.
Corners ==
  {<<0, 0, 0>>, <<1, 0, -1>>, <<-1, -1, 0>>, <<-2, 0, 0>>, <<0, 1, 1>>, <<0, -2, -1>>,
   <<-1, 1, -2>>}
LgSizes == {-1, 0, 1}

Bounds == {VoxelBounds_new(c[1], c[2], c[3], s) : c \in Corners, s \in LgSizes}

NoCall == [op |-> "none", b |-> VoxelBounds_new(0, 0, 0, 0), v |-> 0]

Init ==
  /\ lg_size = 0
  /\ contents = Branches_empty
  /\ status = "ok"
  /\ checked \in BOOLEAN
  /\ prev = NoCall
  /\ last = NoCall
  /\ inserted = {}
  /\ nops = 0
  /\ arg = 0
  /\ out = 0

\* *tree.get_mut_or_create(b) = TreeBody::Leaf(v)
\* The tree never looks into a value: the k-th call inserts the value k, so
\* that no two insertions insert the same value.
Insert(b, v) ==
  /\ status = "ok"
  /\ nops < MaxOps
  /\ \E r \in {get_mut_or_create(checked, lg_size, contents, b)} :
       /\ status' = r.st
       /\ lg_size' = r.lg_size
       /\ contents' = IF r.st = "ok" THEN Assign(r.contents, r.path, Leaf(v))
                      ELSE r.contents
       /\ inserted' = IF r.st = "ok"
                      THEN {e \in inserted : e[1] # b} \cup {<<b, v>>}
                      ELSE inserted
  /\ prev' = last
  /\ last' = [op |-> "insert", b |-> b, v |-> v]
  /\ nops' = nops + 1
  /\ UNCHANGED <<checked, arg, out>>

\* tree.grow_to_hold(b)
Grow(b) ==
  /\ status = "ok"
  /\ nops < MaxOps
  /\ \E g \in {grow_to_hold(checked, lg_size, contents, b)} :
       /\ status' = g.st
       /\ lg_size' = g.lg_size
       /\ contents' = g.contents
  /\ prev' = last
  /\ last' = [op |-> "grow", b |-> b, v |-> 0]
  /\ nops' = nops + 1
  /\ UNCHANGED <<checked, inserted, arg, out>>

\* tree.get(b)
Get(b) ==
  /\ status = "ok"
  /\ nops < MaxOps
  /\ \E r \in {get(checked, lg_size, contents, b)} :
       /\ status' = IF r = Aborted THEN "panic" ELSE "ok"
       /\ last' = [op |-> "get", b |-> b, v |-> r]
  /\ prev' = last
  /\ nops' = nops + 1
  /\ UNCHANGED <<lg_size, contents, checked, inserted, arg, out>>

Next ==
  \/ \E b \in Bounds : Insert(b, nops + 1)
  \/ \E b \in Bounds : Grow(b)
  \/ \E b \in Bounds : Get(b)

Spec == Init /\ [][Next]_vars


----------------------------------------------------------------------------
(* Geometry of bounds, as the data model defines it: the cube of bounds b  *)
(* has edge 2^b.lg_size and its low corner at (b.x, b.y, b.z) * 2^lg_size. *)

\* The cube of c strictly contains the cube of f.
CubeContains(c, f) ==
  /\ c.lg_size > f.lg_size
  /\ LET d == 2 ^ (c.lg_size - f.lg_size)
     IN f.x \div d = c.x /\ f.y \div d = c.y /\ f.z \div d = c.z

\* tree.get(b) on the current tree.
GetNow(b) == get(checked, lg_size, contents, b)

----------------------------------------------------------------------------
(* C1: round trip.                                                         *)

----------------------------------------------------------------------------
(* C2: destructive insertion, both directions.                             *)

\* C2: a fine leaf then a coarse leaf containing it (or a coarse leaf then
\* a fine leaf inside it): get at the first bounds returns not-found and get
\* at the second bounds returns the second value.
C2_Destructive ==
  ( /\ status = "ok" /\ prev.op = "insert" /\ last.op = "insert"
    /\ (CubeContains(last.b, prev.b) \/ CubeContains(prev.b, last.b)) )
  => (GetNow(prev.b) = None /\ GetNow(last.b) = last.v)

----------------------------------------------------------------------------
(* C3: growth transparency.                                                *)

\* C3: a grow_to_hold call changes the result of get for no inserted bounds.
C3_GrowthTransparent ==
  [][ (nops' # nops /\ last'.op = "grow" /\ status' = "ok")
      => \A e \in inserted :
           get(checked, lg_size', contents', e[1]) = GetNow(e[1]) ]_vars

----------------------------------------------------------------------------
(* C4: scale exactness.                                                    *)

\* C4: after one leaf was inserted at (x,y,z,s) into a tree holding nothing
\* else, get at (x,y,z,s') is not-found for every s' # s.
C4_ScaleExact ==
  (status = "ok" /\ last.op = "insert" /\ Cardinality(inserted) = 1)
  => \A s \in LgSizes \ {last.b.lg_size} :
       GetNow(VoxelBounds_new(last.b.x, last.b.y, last.b.z, s)) = None

----------------------------------------------------------------------------
(* C9: lookup out of range, and lookup changes nothing.                    *)

\* C9: a get of bounds that contains_bounds rejects returns not-found, and
\* no get changes lg_size or any node.
C9_GetOutOfRange ==
  [][ (nops' # nops /\ last'.op = "get")
      => /\ lg_size' = lg_size /\ contents' = contents
         /\ (contains_bounds(checked, lg_size, last'.b) = "false" => last'.v = None) ]_vars

\* A get outside the extent of a tree that holds a leaf.
C9_Witness ==
  /\ last.op = "get" /\ prev.op = "insert" /\ status = "ok"
  /\ contains_bounds(checked, lg_size, last.b) = "false"
  /\ last.v = None


----------------------------------------------------------------------------
(* Single calls: one function applied once to a tree that was only grown   *)
(* (lg_size = arg.lg, nothing inserted) and to one bounds.  The bounds are *)
(* small ones around the extent of the tree, and a few at the ends of the  *)
(* i32 range.                                                              *)

CallCoords == (-MaxCoord - 1)..MaxCoord
CallLgSizes == {-2, -1, 0, 1, 2, 3}
FarCoords == {MinI32, -Pow30, Pow30, MaxI32}
\* Scales at which find_mask shifts the mask to the top of the i32 and beyond.
DeepLgSizes == {-32, -31}

CallBounds ==
  {VoxelBounds_new(x, y, z, s) :
     x \in CallCoords, y \in CallCoords, z \in CallCoords, s \in CallLgSizes}
  \cup {VoxelBounds_new(x, 0, 0, 0) : x \in FarCoords}
  \cup {VoxelBounds_new(0, y, 0, 0) : y \in FarCoords}
  \cup {VoxelBounds_new(0, 0, z, 0) : z \in FarCoords}
  \cup {VoxelBounds_new(0, 0, 0, s) : s \in DeepLgSizes}

NoOut == [f |-> "none"]

\* The tree that grow_to_hold leaves after lg doublings of the new tree.
RECURSIVE Grown(_)
Grown(lg) == IF lg = 0 THEN Branches_empty ELSE grow_once(Grown(lg - 1))

InitCall ==
  /\ lg_size = 0
  /\ contents = Branches_empty
  /\ status = "ok"
  /\ checked \in BOOLEAN
  /\ prev = NoCall
  /\ last = NoCall
  /\ inserted = {}
  /\ nops = 0
  /\ arg \in [lg : 0..MaxLg, voxel : CallBounds]
  /\ out = NoOut

CallContainsBounds ==
  /\ out = NoOut
  /\ out' = [f |-> "contains_bounds", r |-> contains_bounds(checked, arg.lg, arg.voxel)]
  /\ UNCHANGED <<lg_size, contents, status, checked, prev, last, inserted, nops, arg>>

CallGrowToHold ==
  /\ out = NoOut
  /\ \E g \in {grow_to_hold(checked, arg.lg, Grown(arg.lg), arg.voxel)} :
       out' = [f |-> "grow_to_hold", st |-> g.st, lg_size |-> g.lg_size]
  /\ UNCHANGED <<lg_size, contents, status, checked, prev, last, inserted, nops, arg>>

CallMutFind ==
  /\ out = NoOut
  /\ contains_bounds(checked, arg.lg, arg.voxel) = "true"
  /\ \E r \in {mut_find(checked, arg.lg, Grown(arg.lg), arg.voxel)} :
       out' = [f |-> "mut_find", st |-> r.st, path |-> r.path]
  /\ UNCHANGED <<lg_size, contents, status, checked, prev, last, inserted, nops, arg>>

NextCall == CallContainsBounds \/ CallGrowToHold \/ CallMutFind

SpecCall == InitCall /\ [][NextCall]_vars

\* 2^lg_size of the tree, and the edge 2^s of a cube of non-negative lg_size.
TreeHalf == 2 ^ arg.lg
Edge(b) == 2 ^ b.lg_size

\* The cube of b lies inside [-2^L, 2^L) on every axis (b.lg_size >= 0).
InsideLowInclusive(b) ==
  \A c \in {b.x, b.y, b.z} : -TreeHalf <= c * Edge(b) /\ (c + 1) * Edge(b) <= TreeHalf

\* The cube of b lies inside (-2^L, 2^L) on every axis, its low corner not
\* on the low face of the tree (b.lg_size >= 0).
InsideLowExclusive(b) ==
  \A c \in {b.x, b.y, b.z} : -TreeHalf < c * Edge(b) /\ (c + 1) * Edge(b) <= TreeHalf

\* Bounds away from the ends of the i32 range.
Near(b) == \A c \in {b.x, b.y, b.z} : c \in CallCoords

----------------------------------------------------------------------------
(* C6: contains_bounds against the geometric reference.                    *)

----------------------------------------------------------------------------
(* C7: the containment boundary.                                           *)

\* The other two coordinates of a unit-scale bounds are inside the extent.
OthersInside(c1, c2) ==
  \A c \in {c1, c2} : -TreeHalf < c /\ c < TreeHalf

\* C7: for a tree of lg_size k and unit-scale bounds, on each axis
\* contains_bounds is true at 2^k - 1 and at -(2^k - 1), and false at 2^k and
\* at -2^k.
BoundaryOnAxis(c, c1, c2) ==
  OthersInside(c1, c2) =>
    /\ (c = TreeHalf - 1 \/ c = -(TreeHalf - 1)) => out.r = "true"
    /\ (c = TreeHalf \/ c = -TreeHalf) => out.r = "false"

----------------------------------------------------------------------------
(* C5: insertion never fails for out-of-range coordinates.                 *)

\* C5: grow_to_hold(b) returns for every bounds b, without overflow or
\* abort, and contains_bounds(b) is true when it returns.
C5_GrowTotal ==
  out.f = "grow_to_hold"
  => (out.st = "ok" /\ contains_bounds(checked, out.lg_size, arg.voxel) = "true")

----------------------------------------------------------------------------
(* C8: sub-unit bounds are always reachable.                               *)

HighX == {"hll", "hlh", "hhl", "hhh"}
HighY == {"lhl", "lhh", "hhl", "hhh"}
HighZ == {"llh", "lhh", "hlh", "hhh"}

\* The octant `slot` of the cube c.
ChildCube(c, slot) ==
  VoxelBounds_new(2 * c.x + (IF slot \in HighX THEN 1 ELSE 0),
                  2 * c.y + (IF slot \in HighY THEN 1 ELSE 0),
                  2 * c.z + (IF slot \in HighZ THEN 1 ELSE 0),
                  c.lg_size - 1)

RECURSIVE Descend(_, _)
Descend(c, path) ==
  IF path = <<>> THEN c ELSE Descend(ChildCube(c, Head(path)), Tail(path))

\* The cube of the node at a path of a tree of lg_size lg: the root slots
\* are the eight cubes of edge 2^lg around the origin.
NodeCube(lg, path) ==
  Descend(VoxelBounds_new(IF Head(path) \in HighX THEN 0 ELSE -1,
                          IF Head(path) \in HighY THEN 0 ELSE -1,
                          IF Head(path) \in HighZ THEN 0 ELSE -1,
                          lg),
          Tail(path))

\* C8: for every bounds b of negative lg_size, whatever the tree's lg_size,
\* contains_bounds(b) is true and the traversal ends at the node whose cube
\* is the cube of b.
C8_SubUnitReachable ==
  (out.f = "mut_find" /\ arg.voxel.lg_size < 0)
  => /\ contains_bounds(checked, arg.lg, arg.voxel) = "true"
     /\ out.st = "ok"
     /\ NodeCube(arg.lg, out.path) = arg.voxel


----------------------------------------------------------------------------
(* The ray caster (raycast.rs).                                            *)
(*                                                                         *)
(* f32 values are kept exactly, as integers counting quarters: the rays    *)
(* cast here have origins on the half-unit grid and direction components   *)
(* -1.0, 0.0 and 1.0, and the bounds have lg_size >= -1, so that every     *)
(* product, quotient and sum of cast_ray is a multiple of 1/4 and no f32   *)
(* operation rounds.  Directions are kept as -1, 0, 1.                     *)

\* An Option<Entry>; an Exit has the same fields.
NoEntry == [some |-> FALSE]
SomeEntry(side, toi) == [some |-> TRUE, side |-> side, toi |-> toi]

\* from_exit that keeps the side of the exit.
from_exit_same_side(exit) == SomeEntry(exit.side, exit.toi)

\* Entry::from_exit
from_exit(exit) ==
  SomeEntry(IF exit.side < 3 THEN exit.side + 3 ELSE exit.side - 3, exit.toi)

\* VoxelBounds::size, in quarters (lg_size >= -2).
size(b) == IF b.lg_size >= 0 THEN 4 * (2 ^ b.lg_size) ELSE 4 \div (2 ^ (-b.lg_size))

\* a / d for d = 1.0 or -1.0.
FDiv(a, d) == IF d > 0 THEN a ELSE -a

\* Branches::get(x, y, z): the child in the low (0) or high (1) half on each
\* axis.  raycast.rs calls it, lib.rs does not define it.
Branches_get(this, x, y, z) == this[get_branch(x = 1, y = 1, z = 1)]

\* The Empty arm with the entry face left among the candidates.
EmptyExit_with_entry_face(origin, direction, bounds, entry) ==
  LET sides == <<bounds.x, bounds.y, bounds.z, bounds.x + 1, bounds.y + 1, bounds.z + 1>>
      toi(side) == FDiv(sides[side + 1] * size(bounds) - origin[(side % 3) + 1],
                        direction[(side % 3) + 1])
      next_toi(side) ==
        /\ direction[(side % 3) + 1] # 0
        /\ IF entry.some THEN entry.toi <= toi(side) ELSE toi(side) >= 0
      cands == {side \in 0..5 : next_toi(side)}
  IN IF cands = {} THEN [tag |-> "panic"]
     ELSE LET m == CHOOSE a \in cands :
                     \A c \in cands : toi(a) < toi(c) \/ (toi(a) = toi(c) /\ a <= c)
          IN [tag |-> "Err", side |-> m, toi |-> toi(m)]

\* The Empty arm of cast_ray: the exit, or a panic when no side is left
\* (`unwrap` of None).  The minimum is the first of equal times.
EmptyExit(origin, direction, bounds, entry) ==
  LET sides == <<bounds.x, bounds.y, bounds.z, bounds.x + 1, bounds.y + 1, bounds.z + 1>>
      toi(side) == FDiv(sides[side + 1] * size(bounds) - origin[(side % 3) + 1],
                        direction[(side % 3) + 1])
      next_toi(side) ==
        /\ direction[(side % 3) + 1] # 0
        /\ IF entry.some THEN entry.toi <= toi(side) ELSE toi(side) >= 0
      cands == {side \in 0..5 : (entry.some => side # entry.side) /\ next_toi(side)}
  IN IF cands = {} THEN [tag |-> "panic"]
     ELSE LET m == CHOOSE a \in cands :
                     \A c \in cands : toi(a) < toi(c) \/ (toi(a) = toi(c) /\ a <= c)
          IN [tag |-> "Err", side |-> m, toi |-> toi(m)]

\* make_bounds of cast_ray.
make_bounds(bounds, coords) ==
  VoxelBounds_new(2 * bounds.x + coords[1], 2 * bounds.y + coords[2],
                  2 * bounds.z + coords[3], bounds.lg_size - 1)

RECURSIVE cast_ray(_, _, _, _, _)
RECURSIVE cast_ray_branches(_, _, _, _, _, _)

\* cast_ray_branches; `bounds` are the bounds captured by make_bounds.
cast_ray_branches(this, origin, direction, entry, coords, bounds) ==
  LET r == cast_ray(Branches_get(this, coords[1], coords[2], coords[3]),
                    origin, direction, make_bounds(bounds, coords), entry)
  IN IF r.tag # "Err" THEN r
     ELSE LET dim == (r.side % 3) + 1
              far == IF direction[dim] < 0 THEN 0 ELSE 1
          IN IF coords[dim] = far THEN r
             ELSE cast_ray_branches(this, origin, direction, from_exit(r),
                                    [coords EXCEPT ![dim] = far], bounds)

\* cast_ray: [tag |-> "Ok", bounds, val], [tag |-> "Err", side, toi] or
\* [tag |-> "panic"].  A Branch has lg_size >= -1 here.
cast_ray(this, origin, direction, bounds, entry) ==
  IF this.tag = "Empty" THEN EmptyExit(origin, direction, bounds, entry)
  ELSE IF this.tag = "Leaf" THEN [tag |-> "Ok", bounds |-> bounds, val |-> this.val]
  ELSE LET half == size(bounds) \div 2
           mid == <<(2 * bounds.x + 1) * half, (2 * bounds.y + 1) * half,
                    (2 * bounds.z + 1) * half>>
           entry_toi == IF entry.some THEN entry.toi ELSE 0
           intersect == [i \in 1..3 |-> origin[i] + entry_toi * direction[i]]
       IN cast_ray_branches(this.b, origin, direction, entry,
                            [i \in 1..3 |-> IF intersect[i] >= mid[i] THEN 1 ELSE 0],
                            bounds)


\* One round of the loop of cast_ray_branches with the always-other half as
\* the next sibling, whichever way the ray goes.
branches_round_flip(this, origin, direction, entry, coords, bounds) ==
  LET r == cast_ray(Branches_get(this, coords[1], coords[2], coords[3]),
                    origin, direction, make_bounds(bounds, coords), entry)
  IN IF r.tag # "Err" THEN [st |-> r.tag, r |-> r, coords |-> coords, entry |-> entry]
     ELSE LET dim == (r.side % 3) + 1
          IN [st |-> "running", r |-> r, entry |-> from_exit(r),
              coords |-> [coords EXCEPT ![dim] = 1 - coords[dim]]]

\* One round of the loop of cast_ray_branches (raycast.rs:62-83): the cast
\* on the current child, then the return ("Ok", "Err", "panic") or the next
\* coords and entry ("running").
branches_round(this, origin, direction, entry, coords, bounds) ==
  LET r == cast_ray(Branches_get(this, coords[1], coords[2], coords[3]),
                    origin, direction, make_bounds(bounds, coords), entry)
  IN IF r.tag # "Err" THEN [st |-> r.tag, r |-> r, coords |-> coords, entry |-> entry]
     ELSE LET dim == (r.side % 3) + 1
              far == IF direction[dim] < 0 THEN 0 ELSE 1
          IN IF coords[dim] = far
             THEN [st |-> "Err", r |-> r, coords |-> coords, entry |-> entry]
             ELSE [st |-> "running", r |-> r, entry |-> from_exit(r),
                   coords |-> [coords EXCEPT ![dim] = far]]

----------------------------------------------------------------------------
(* Casting rays at a tree that holds at most one leaf.  The cast is made   *)
(* on one of the root's eight children, with the bounds that child has in  *)
(* the tree and no entry, for a ray that passes through these bounds       *)
(* (the precondition of cast_ray).                                         *)

MaxOrigin == 2

\* Origins lie on the odd half-unit grid -2.5, -1.5, .., 2.5 (in quarters).
OriginCoords == {2 * (2 * k + 1) : k \in (-MaxOrigin - 1)..MaxOrigin}
Origins == {<<x, y, z>> : x \in OriginCoords, y \in OriginCoords, z \in OriginCoords}
Directions == {<<x, y, z>> : x \in {-1, 0, 1}, y \in {-1, 0, 1}, z \in {-1, 0, 1}}

RayLeaves ==
  {VoxelBounds_new(0, 0, 0, 0), VoxelBounds_new(1, 0, 0, 0), VoxelBounds_new(-1, 0, 1, 0),
   VoxelBounds_new(-2, -1, 0, 0), VoxelBounds_new(0, -1, -1, 1)}

\* The bounds of the root's child `slot`: the root's "h" children hold the
\* non-negative coordinates (get_mut_or_create / mut_find).
SlotBounds(lg, slot) ==
  VoxelBounds_new(IF slot \in HighX THEN 0 ELSE -1, IF slot \in HighY THEN 0 ELSE -1,
                  IF slot \in HighZ THEN 0 ELSE -1, lg)

\* The point of the ray at time t (t and the point in quarters).
RayAt(origin, direction, t) == [i \in 1..3 |-> origin[i] + t * direction[i]]

\* The point p lies in the cube of bounds b: low face inclusive, high face
\* exclusive / strictly inside / on or inside.
InCube(p, b) ==
  LET lo == <<b.x, b.y, b.z>> IN
  \A i \in 1..3 : lo[i] * size(b) <= p[i] /\ p[i] < (lo[i] + 1) * size(b)

StrictlyInCube(p, b) ==
  LET lo == <<b.x, b.y, b.z>> IN
  \A i \in 1..3 : lo[i] * size(b) < p[i] /\ p[i] < (lo[i] + 1) * size(b)

OnCube(p, b) ==
  LET lo == <<b.x, b.y, b.z>> IN
  \A i \in 1..3 : lo[i] * size(b) <= p[i] /\ p[i] <= (lo[i] + 1) * size(b)

\* The times, up to the one by which a ray from Origins has left a tree of
\* size lg, at which the ray is looked at: every half unit (in quarters).
\* Origins are odd multiples of 1/2, faces are integers and the speed on an
\* axis is 0 or 1, so a ray is on a face at odd multiples of 1/2 only, and if
\* it is in a cube at some time it is there at a multiple of 1/2.
RayTimes(lg) == {2 * k : k \in 0..(2 * (MaxOrigin + 1 + 2 ^ lg))}

PassesThrough(origin, direction, b, lg) ==
  {t \in RayTimes(lg) : InCube(RayAt(origin, direction, t), b)} # {}

PassesInside(origin, direction, b, lg) ==
  {t \in RayTimes(lg) : StrictlyInCube(RayAt(origin, direction, t), b)} # {}

Touches(origin, direction, b, lg) ==
  {t \in RayTimes(lg) : OnCube(RayAt(origin, direction, t), b)} # {}

NoRay == [op |-> "none"]

InitRay ==
  /\ lg_size = 0
  /\ contents = Branches_empty
  /\ status = "ok"
  /\ checked \in BOOLEAN
  /\ prev = NoCall
  /\ last = NoCall
  /\ inserted = {}
  /\ nops = 0
  /\ arg = NoRay
  /\ out = NoOut

\* One insertion into the new tree.
RayInsert(b) ==
  /\ inserted = {}
  /\ arg = NoRay
  /\ Insert(b, 1)

\* cast_ray on one of the root's children.
CastRay ==
  /\ status = "ok"
  /\ arg = NoRay
  /\ \E origin \in Origins, direction \in Directions, slot \in Slots :
       /\ PassesThrough(origin, direction, SlotBounds(lg_size, slot), lg_size)
       /\ arg' = [origin |-> origin, direction |-> direction, slot |-> slot]
       /\ out' = cast_ray(contents[slot], origin, direction,
                          SlotBounds(lg_size, slot), NoEntry)
  /\ UNCHANGED <<lg_size, contents, status, checked, prev, last, inserted, nops>>

NextRay ==
  \/ \E b \in RayLeaves : RayInsert(b)
  \/ CastRay

SpecRay == InitRay /\ [][NextRay]_vars

\* The leaf of the tree lies in the child the ray was cast on.
LeafInSlot(b) ==
  LET sb == SlotBounds(lg_size, arg.slot)
  IN /\ (sb.x = 0) = (b.x >= 0)
     /\ (sb.y = 0) = (b.y >= 0)
     /\ (sb.z = 0) = (b.z >= 0)

Moving == arg # NoRay /\ arg.direction # <<0, 0, 0>>

\* A ray through the inside of the leaf's cube returns the leaf.
RayHit ==
  Moving =>
    \A e \in inserted :
      \/ ~LeafInSlot(e[1])
      \/ ~PassesInside(arg.origin, arg.direction, e[1], lg_size)
      \/ out = [tag |-> "Ok", bounds |-> e[1], val |-> e[2]]

\* A ray that does not touch the leaf's cube leaves the node with an Exit.
RayMiss ==
  Moving =>
    \/ \E e \in inserted : Touches(arg.origin, arg.direction, e[1], lg_size)
    \/ out.tag = "Err"


\* Cast on a Leaf, the result is Ok with the bounds of the call and the value.
LeafYieldsOk ==
  (arg # NoRay /\ contents[arg.slot].tag = "Leaf")
    => out = [tag |-> "Ok", bounds |-> SlotBounds(lg_size, arg.slot),
              val |-> contents[arg.slot].val]

\* Cast on an Empty node, the result is never Ok.
EmptyNeverOk ==
  (arg # NoRay /\ contents[arg.slot].tag = "Empty") => out.tag # "Ok"

\* C10: in a tree with a single leaf, a cast of a ray that passes through the
\* leaf's cube returns Ok with the leaf's bounds and value, a cast of a ray
\* that passes through empty space only returns Err(Exit), a Leaf node yields
\* Ok with the bounds of the call and an Empty node never yields Ok.
C10_HitAndMiss == RayHit /\ RayMiss /\ LeafYieldsOk /\ EmptyNeverOk


----------------------------------------------------------------------------
(* C11: the tree never shrinks.                                            *)

\* C11: no call lowers lg_size, and every bounds that contains_bounds
\* accepts before a call is accepted after it.
C11_NeverShrinks ==
  [][ /\ lg_size' >= lg_size
      /\ \A b \in Bounds :
           contains_bounds(checked, lg_size, b) = "true"
             => contains_bounds(checked, lg_size', b) = "true" ]_vars

\* A call has grown the tree, and a bounds of the new tree's extent is
\* contained in the grown one.
C11_Witness ==
  /\ status = "ok"
  /\ last.op \in {"insert", "grow"}
  /\ lg_size >= 2
  /\ contains_bounds(checked, 0, VoxelBounds_new(0, 0, 0, 0)) = "true"
  /\ contains_bounds(checked, lg_size, VoxelBounds_new(0, 0, 0, 0)) = "true"


----------------------------------------------------------------------------
(* C12: what one doubling does.                                            *)

\* The octant with every axis flipped (c XOR 0b111).
Antipode(c) ==
  CHOOSE d \in Slots : /\ (d \in HighX) # (c \in HighX)
                       /\ (d \in HighY) # (c \in HighY)
                       /\ (d \in HighZ) # (c \in HighZ)

\* The root after one doubling, as the claim describes it.
Doubled(old) ==
  [c \in Slots |->
     Branch([d \in Slots |-> IF d = Antipode(c) THEN old[c] ELSE Empty])]

RECURSIVE DoubledBy(_, _)
DoubledBy(old, n) == IF n = 0 THEN old ELSE DoubledBy(Doubled(old), n - 1)

\* C12: a grow_to_hold call that raises lg_size by n leaves the root that n
\* doublings give, each of which makes the new slot c a Branch that holds
\* the old slot c at the antipode of c and Empty elsewhere.
C12_Doubling ==
  [][ (nops' # nops /\ last'.op = "grow" /\ status' = "ok")
      => /\ lg_size' >= lg_size
         /\ contents' = DoubledBy(contents, lg_size' - lg_size) ]_vars

\* grow_to_hold has doubled a tree that holds a leaf.
C12_Witness ==
  /\ status = "ok"
  /\ last.op = "grow"
  /\ prev.op = "insert"
  /\ lg_size > 0
  /\ contains_bounds(checked, lg_size - 1, last.b) = "false"
  /\ \E c \in Slots : contents[c].b[Antipode(c)] # Empty


----------------------------------------------------------------------------
(* C13: every traversal terminates.                                        *)

\* C13: mut_find on bounds the tree contains returns, after at most
\* lg_size - bounds.lg_size + 1 octant selections.
C13_Terminates ==
  out.f = "mut_find"
  => /\ out.st = "ok"
     /\ Len(out.path) <= arg.lg - arg.voxel.lg_size + 1


----------------------------------------------------------------------------
(* get_mut_or_create called for its path only: after at most MaxBuilt      *)
(* insertions, one call whose result is not assigned to.                   *)

MaxBuilt == 1

NoPath == <<>>

InitPath ==
  /\ lg_size = 0
  /\ contents = Branches_empty
  /\ status = "ok"
  /\ checked \in BOOLEAN
  /\ prev = NoCall
  /\ last = NoCall
  /\ inserted = {}
  /\ nops = 0
  /\ arg = NoPath
  /\ out = NoOut

PathInsert(b) ==
  /\ nops < MaxBuilt
  /\ last.op # "create"
  /\ Insert(b, nops + 1)

\* tree.get_mut_or_create(b); `arg` keeps the path of the node returned.
Create(b) ==
  /\ status = "ok"
  /\ last.op # "create"
  /\ \E r \in {get_mut_or_create(checked, lg_size, contents, b)} :
       /\ status' = r.st
       /\ lg_size' = r.lg_size
       /\ contents' = r.contents
       /\ arg' = r.path
  /\ prev' = last
  /\ last' = [op |-> "create", b |-> b, v |-> 0]
  /\ nops' = nops + 1
  /\ UNCHANGED <<checked, inserted, out>>

NextPath ==
  \/ \E b \in Bounds : PathInsert(b)
  \/ \E b \in Bounds : Create(b)

SpecPath == InitPath /\ [][NextPath]_vars

\* The nodes strictly above the node at `path` are Branches.
RECURSIVE BranchesAbove(_, _)
BranchesAbove(branches, path) ==
  \/ Len(path) <= 1
  \/ /\ branches[Head(path)].tag = "Branch"
     /\ BranchesAbove(branches[Head(path)].b, Tail(path))

\* C14: a get_mut_or_create(b) call that is not assigned to leaves Branches
\* above the node it returns and does not change the result of get(b).
C14_PathOnly ==
  [][ (nops' # nops /\ last'.op = "create" /\ status' = "ok")
      => /\ BranchesAbove(contents', arg')
         /\ get(checked, lg_size', contents', last'.b) = GetNow(last'.b) ]_vars


----------------------------------------------------------------------------
(* Single calls of the ray caster: Entry::from_exit on an exit, cast_ray   *)
(* on a node, and the loop of cast_ray_branches on the children of a       *)
(* Branch, one round at a time.  The node has the bounds (0, 0, 0, 1), the *)
(* cube [0, 2)^3.  No arithmetic of these calls depends on the build.      *)

MaxToi == 3

\* Times of intersection, in quarters.
Tois == {2 * k : k \in 0..MaxToi}
Exits == {SomeEntry(side, toi) : side \in 0..5, toi \in Tois}
Entries == {NoEntry} \cup {SomeEntry(side, toi) : side \in 0..5, toi \in {0, 2}}

\* Children of a Branch as the insertions of one or two leaves leave them.
OneLeaf == [Branches_empty EXCEPT !["hhl"] = Leaf(1)]
Nested == [Branches_empty EXCEPT !["lll"] = Branch(OneLeaf), !["hlh"] = Leaf(2)]
RayNodes == {Empty, Leaf(1), Branch(OneLeaf), Branch(Nested)}

NodeBounds == VoxelBounds_new(0, 0, 0, 1)

\* Origins below, in and above the node on the x axis.
CallOrigins == {<<x, y, z>> : x \in OriginCoords, y \in {-2, 2, 6}, z \in {2, 6}}

Coords == {<<x, y, z>> : x \in {0, 1}, y \in {0, 1}, z \in {0, 1}}

FromExitArgs == [f : {"from_exit"}, exit : Exits]
BranchesEntries == {NoEntry, SomeEntry(0, 0), SomeEntry(4, 2)}
BranchesArgs ==
  [f : {"cast_ray_branches"}, this : {OneLeaf, Nested}, origin : CallOrigins,
   direction : Directions, entry : BranchesEntries, coords : Coords]
CastRayArgs ==
  [f : {"cast_ray"}, node : RayNodes, origin : CallOrigins, direction : Directions,
   entry : Entries]

InitRayCall ==
  /\ lg_size = 0
  /\ contents = Branches_empty
  /\ status = "ok"
  /\ checked = TRUE
  /\ prev = NoCall
  /\ last = NoCall
  /\ inserted = {}
  /\ nops = 0
  /\ arg \in FromExitArgs \cup CastRayArgs \cup BranchesArgs
  /\ out = NoOut

CallFromExit ==
  /\ out = NoOut
  /\ arg.f = "from_exit"
  /\ out' = [f |-> "from_exit", r |-> from_exit(arg.exit)]
  /\ UNCHANGED <<lg_size, contents, status, checked, prev, last, inserted, nops, arg>>

CallCastRay ==
  /\ out = NoOut
  /\ arg.f = "cast_ray"
  /\ out' = [f |-> "cast_ray",
             r |-> cast_ray(arg.node, arg.origin, arg.direction, NodeBounds, arg.entry)]
  /\ UNCHANGED <<lg_size, contents, status, checked, prev, last, inserted, nops, arg>>

\* The loop of cast_ray_branches before its first round.
LoopStart ==
  [f |-> "cast_ray_branches", st |-> "running", coords |-> arg.coords,
   entry |-> arg.entry, visited |-> <<>>, exits |-> <<>>]

\* One round of the loop of cast_ray_branches; `out` keeps coords and entry,
\* the children visited and what the casts on them returned.
BranchesRound ==
  /\ arg.f = "cast_ray_branches"
  /\ \E cur \in {IF out = NoOut THEN LoopStart ELSE out} :
       /\ cur.st = "running"
       /\ \E n \in {branches_round(arg.this, arg.origin, arg.direction, cur.entry,
                                    cur.coords, NodeBounds)} :
            out' = [f |-> "cast_ray_branches", st |-> n.st, coords |-> n.coords,
                    entry |-> n.entry, visited |-> Append(cur.visited, cur.coords),
                    exits |-> Append(cur.exits, n.r)]
  /\ UNCHANGED <<lg_size, contents, status, checked, prev, last, inserted, nops, arg>>

NextRayCall == CallFromExit \/ CallCastRay \/ BranchesRound

SpecRayCall == InitRayCall /\ [][NextRayCall]_vars

\* C15: from_exit maps the exit face f to the entry face (f + 3) mod 6 and
\* keeps the time of intersection; the face stays on its axis, and the
\* mapping applied twice gives f back.
C15_FromExit ==
  out.f = "from_exit"
  => /\ out.r.side = (arg.exit.side + 3) % 6
     /\ out.r.toi = arg.exit.toi
     /\ out.r.side % 3 = arg.exit.side % 3
     /\ from_exit(out.r).side = arg.exit.side

\* from_exit was applied to an exit through a high face.
C15_Witness ==
  /\ out.f = "from_exit"
  /\ arg.exit.side >= 3
  /\ arg.exit.toi > 0
  /\ out.r = SomeEntry(arg.exit.side - 3, arg.exit.toi)


----------------------------------------------------------------------------
(* C17: the exit chosen at an Empty node.                                  *)

\* The plane of a face of the node (in quarters), and the time at which the
\* ray of the call is on it.
FacePlane(side) == IF side < 3 THEN 0 ELSE size(NodeBounds)
FaceTimes == (-4 * (MaxOrigin + 3))..(4 * (MaxOrigin + 3))
FaceTime(side) ==
  CHOOSE t \in FaceTimes :
    arg.origin[(side % 3) + 1] + t * arg.direction[(side % 3) + 1] = FacePlane(side)

EntryTime == IF arg.entry.some THEN arg.entry.toi ELSE 0

\* The faces the claim lets the ray leave through.
Candidates ==
  {side \in 0..5 : /\ arg.direction[(side % 3) + 1] # 0
                   /\ arg.entry.some => side # arg.entry.side
                   /\ FaceTime(side) >= EntryTime}

\* C17: the Exit returned at an Empty node is a face that is not parallel to
\* the ray, is not the entry face and has t >= entry.t (t >= 0 without an
\* entry), with the smallest t of these faces; and the exit of a cast on any
\* node is not earlier than its entry.
C17_ExitSelection ==
  (out.f = "cast_ray" /\ out.r.tag = "Err")
  => /\ out.r.toi >= EntryTime
     /\ arg.node = Empty
          => /\ out.r.side \in Candidates
             /\ out.r.toi = FaceTime(out.r.side)
             /\ \A side \in Candidates : out.r.toi <= FaceTime(side)

\* An Empty node was left after an entry, through the earliest of several
\* faces, with a face behind the entry left out.
C17_Witness ==
  /\ out.f = "cast_ray"
  /\ arg.node = Empty
  /\ arg.entry.some
  /\ out.r.tag = "Err"
  /\ \E side \in Candidates : FaceTime(side) > out.r.toi
  /\ \E side \in 0..5 : /\ arg.direction[(side % 3) + 1] # 0
                        /\ side # arg.entry.side
                        /\ FaceTime(side) < EntryTime

----------------------------------------------------------------------------
(* C18: the caster is total.                                               *)

\* C18: cast_ray returns Ok or Err(Exit) on every node, origin, direction and
\* entry, a direction of all zeros and an origin beyond the node included.
C18_Total == out.f = "cast_ray" => out.r.tag \in {"Ok", "Err"}


----------------------------------------------------------------------------
(* C16: stepping from sibling to sibling.                                  *)

\* The half of the Branch the ray of the call goes to on an axis.
FarHalf(dim) == IF arg.direction[dim] < 0 THEN 0 ELSE 1

\* The axes on which the i-th and the next child visited differ.
Changed(i) == {dim \in 1..3 : out.visited[i][dim] # out.visited[i + 1][dim]}

\* C16: on each Err(exit) of a child only the coordinate on the axis
\* exit.side % 3 changes, to 0 for a negative direction and to 1 otherwise;
\* an exit on an axis whose coordinate has that value already is returned
\* as it is; each coordinate changes at most once and a call visits at
\* most 4 children.
C16_SiblingStepping ==
  out.f = "cast_ray_branches"
  => LET n == Len(out.visited) IN
     /\ n <= 4
     /\ out.st = "running" => n <= 3
     /\ \A i \in 1..(n - 1) :
          /\ out.exits[i].tag = "Err"
          /\ Changed(i) = {(out.exits[i].side % 3) + 1}
          /\ \A dim \in Changed(i) : out.visited[i + 1][dim] = FarHalf(dim)
     /\ \A dim \in 1..3 : Cardinality({i \in 1..(n - 1) : dim \in Changed(i)}) <= 1
     /\ out.st = "Err"
          => /\ out.exits[n].tag = "Err"
             /\ out.visited[n][(out.exits[n].side % 3) + 1]
                  = FarHalf((out.exits[n].side % 3) + 1)
     /\ out.st # "running"
          => out.exits[n] = cast_ray_branches(arg.this, arg.origin, arg.direction,
                                              arg.entry, arg.coords, NodeBounds)

\* A call has visited four children, one coordinate changed after another,
\* and has returned the exit of the fourth.
C16_Witness ==
  /\ out.f = "cast_ray_branches"
  /\ out.st = "Err"
  /\ Len(out.visited) = 4
  /\ \A dim \in 1..3 : out.visited[4][dim] = FarHalf(dim)


----------------------------------------------------------------------------
(* C19: insertion touches only overlapping regions.                        *)

\* The cubes of a and b (lg_size >= -1) have no point in common; the
\* coordinates are taken in halves.
Disjoint(a, b) ==
  LET ea == 2 ^ (a.lg_size + 1)
      eb == 2 ^ (b.lg_size + 1)
      Apart(ca, cb) == ca * ea + ea <= cb * eb \/ cb * eb + eb <= ca * ea
  IN Apart(a.x, b.x) \/ Apart(a.y, b.y) \/ Apart(a.z, b.z)

\* C19: an insertion at bounds b changes the result of get(b') for no bounds
\* b' whose cube is disjoint from the cube of b.
C19_DisjointUntouched ==
  [][ (nops' # nops /\ last'.op = "insert" /\ status' = "ok")
      => \A b \in Bounds :
           Disjoint(b, last'.b)
             => get(checked, lg_size', contents', b) = GetNow(b) ]_vars


----------------------------------------------------------------------------
(* C20: the read-only and the mutable traversal agree.                     *)

\* C20: after get_mut_or_create(b) has made every node above its node a
\* Branch, find on b selects the octants that mut_find selected, stops at
\* the same depth and reads the node that get_mut_or_create returned.
C20_TraversalsAgree ==
  [][ (nops' # nops /\ last'.op = "create" /\ status' = "ok")
      => /\ find_slots(checked, lg_size', contents', last'.b)
              = [tag |-> "Ok", path |-> arg']
         /\ find(checked, lg_size', contents', last'.b)
              = [tag |-> "Ok", node |-> NodeAt(contents', arg')] ]_vars

\* get_mut_or_create has returned a node three levels down, on a path that
\* takes a low and a high octant.
C20_Witness ==
  /\ status = "ok"
  /\ last.op = "create"
  /\ Len(arg) >= 3
  /\ \E i \in 1..Len(arg) : arg[i] \notin {"lll", "hhh"}


====
